---- MODULE Spec2Model ----
(***************************************************************************)
(* Model of cmd/sblookup/main.go: the command-line tool that reads one URL *)
(* per line from STDIN, looks every URL up with Safe Browsing, prints the  *)
(* "Safe" / "Unsafe" verdict to STDOUT and exits with a summary code.      *)
(*                                                                         *)
(* The state is main()'s local variables, the two output streams, the      *)
(* scanner over STDIN and the position of control in main().  Output lines *)
(* are the strings fmt.Fprintln builds (without the trailing newline).     *)
(***************************************************************************)
EXTENDS Integers, Sequences, FiniteSets, TLC

-----------------------------------------------------------------------------
(* Bounds of the model. *)

\* longest input (number of lines on STDIN)
MaxLines == 2
\* longest threat list the Safe Browsing client returns for one URL
MaxMatches == 1

-----------------------------------------------------------------------------
(* Data drawn for the inputs. *)

\* lines of STDIN (an empty line is a URL too: scanner.Text() returns "")
URLs == {"", "http://bad1url.org"}

\* values of the -apikey flag ("" is the flag's default)
APIKeys == {"", "KEY"}

\* the nil error
NilErr == "<nil>"

\* errors NewSafeBrowser can return
InitErrors == {"invalid api key"}

\* errors LookupURLs can return
LookupErrors == {"lookup failed"}

\* URLThreat values the client can report
URLThreats ==
    { [Pattern |-> "bad1url.org", ThreatType |-> "MALWARE",
       PlatformType |-> "ANY_PLATFORM", ThreatEntryType |-> "URL_EXPRESSION"],
      [Pattern |-> "bad1url.org", ThreatType |-> "SOCIAL_ENGINEERING",
       PlatformType |-> "ANY_PLATFORM", ThreatEntryType |-> "URL_EXPRESSION"] }

SeqsUpTo(S, n) == UNION { [1..k -> S] : k \in 0..n }

\* the threat lists one URL can get
ThreatLists == SeqsUpTo(URLThreats, MaxMatches)

\* What sb.LookupURLs([]string{url}) can return: on success one threat list
\* per URL passed (here one); with an error, either no list at all (nil) or
\* the list allocated for the batch, filled as far as the lookup got.
LookupReturns ==
    { [threats |-> <<t>>, err |-> NilErr] : t \in ThreatLists }
      \cup { [threats |-> <<>>, err |-> e] : e \in LookupErrors }
      \cup { [threats |-> <<t>>, err |-> e] : t \in ThreatLists, e \in LookupErrors }

-----------------------------------------------------------------------------
(* Exit codes. *)

\* code = 1
CodeUnsafe == 1
\* code := 1: the running code started at the "unsafe" value
CodeInitialUnsafe == CodeUnsafe
\* code := 0
CodeInitial == 0
\* code = 128 // Invalid argument.
CodeFailed == 128
\* os.Exit(1) on a startup error
CodeStartup == 1
\* exit status of a Go program that dies of an unrecovered run-time panic
CodePanic == 2
\* the process has not exited
NotExited == -1

-----------------------------------------------------------------------------
(* fmt formatting. *)

\* %v of a URLThreat: {Pattern {ThreatType PlatformType ThreatEntryType}}
FmtThreat(t) ==
    "{" \o t.Pattern \o " {" \o t.ThreatType \o " " \o t.PlatformType
        \o " " \o t.ThreatEntryType \o "}}"

RECURSIVE FmtJoin(_)
FmtJoin(ts) ==
    IF Len(ts) = 0 THEN ""
    ELSE IF Len(ts) = 1 THEN FmtThreat(ts[1])
    ELSE FmtThreat(ts[1]) \o " " \o FmtJoin(Tail(ts))

\* %v of a []URLThreat: the elements in order, space separated, in brackets
FmtThreats(ts) == "[" \o FmtJoin(ts) \o "]"

\* fmt.Fprintln(w, a, b): the operands separated by a space, as one line
Sprintln(a, b) == a \o " " \o b

-----------------------------------------------------------------------------
VARIABLES
    pc,        \* position of control in main()
    apiKey,    \* *apiKeyFlag
    sb,        \* sb: the Safe Browsing client, once constructed
    lines,     \* the lines of STDIN the scanner can deliver
    readFail,  \* whether reading STDIN fails after those lines
    pos,       \* number of lines the scanner has delivered
    scanErr,   \* scanner.Err()
    url,       \* url
    threats,   \* threats
    err,       \* err
    code,      \* code
    stdout,    \* lines written to os.Stdout
    stderr,    \* lines written to os.Stderr
    exitCode,  \* exit status of the process
    calls,     \* every sb.LookupURLs call made: argument and return values
    prev       \* what an earlier run of the tool ended with, if there was one

vars == <<pc, apiKey, sb, lines, readFail, pos, scanErr, url, threats, err, code,
          stdout, stderr, exitCode, calls, prev>>

\* sb before NewSafeBrowser has returned a client
NilSB == "nil"

\* error a failed read of STDIN leaves in the scanner
ReadError == "read error"

\* no earlier run
NoRun ==
    [ran |-> FALSE, looped |-> FALSE, nSafe |-> 0, nUnsafe |-> 0, nFailed |-> 0,
     readErr |-> FALSE, exitCode |-> NotExited]

Init ==
    /\ pc = "flagParse"
    /\ prev = NoRun
    /\ apiKey \in APIKeys
    /\ sb = NilSB
    /\ lines \in SeqsUpTo(URLs, MaxLines)
    /\ readFail \in BOOLEAN
    /\ pos = 0
    /\ scanErr = NilErr
    /\ url = ""
    /\ threats = <<>>
    /\ err = NilErr
    /\ code = CodeInitial
    /\ stdout = <<>>
    /\ stderr = <<>>
    /\ exitCode = NotExited
    /\ calls = <<>>

-----------------------------------------------------------------------------
(* main() *)


\* FlagParse without the os.Exit(1): the missing key is reported and main()
\* goes on to construct the client.
FlagParseNoExit ==
    /\ pc = "flagParse"
    /\ stderr' = IF apiKey = "" THEN Append(stderr, "No -apikey specified")
                 ELSE stderr
    /\ pc' = "newSafeBrowser"
    /\ UNCHANGED <<prev, apiKey, sb, lines, readFail, pos, scanErr, url, threats, err,
                   code, stdout, exitCode, calls>>

\* flag.Parse(); if *apiKeyFlag == "" { ...; os.Exit(1) }
FlagParse ==
    /\ pc = "flagParse"
    /\ IF apiKey = ""
       THEN /\ stderr' = Append(stderr, "No -apikey specified")
            /\ exitCode' = CodeStartup
            /\ pc' = "done"
       ELSE /\ pc' = "newSafeBrowser"
            /\ UNCHANGED <<stderr, exitCode>>
    /\ UNCHANGED <<prev, apiKey, sb, lines, readFail, pos, scanErr, url, threats, err,
                   code, stdout, calls>>

\* sb, err := safebrowsing.NewSafeBrowser(...); if err != nil { ...; os.Exit(1) }
\* On success: scanner := bufio.NewScanner(os.Stdin); code := 0
NewSafeBrowser ==
    /\ pc = "newSafeBrowser"
    /\ \E e \in InitErrors \cup {NilErr} :
        IF e # NilErr
        THEN /\ stderr' = Append(stderr,
                    Sprintln("Unable to initialize Safe Browsing client: ", e))
             /\ exitCode' = CodeStartup
             /\ pc' = "done"
             /\ UNCHANGED <<sb, code>>
        ELSE /\ sb' = "SafeBrowser"
             /\ code' = CodeInitial
             /\ pc' = "scan"
             /\ UNCHANGED <<stderr, exitCode>>
    /\ UNCHANGED <<prev, apiKey, lines, readFail, pos, scanErr, url, threats, err,
                   stdout, calls>>


\* Scan that never sees the end of the input: after the last line it waits
\* for more.
ScanBlocks ==
    /\ pc = "scan"
    /\ pos < Len(lines)
    /\ pos' = pos + 1
    /\ url' = lines[pos + 1]
    /\ pc' = "lookup"
    /\ UNCHANGED <<prev, apiKey, sb, lines, readFail, threats, err, code, stdout,
                   stderr, scanErr, exitCode, calls>>

\* for scanner.Scan() { url := scanner.Text()
\* Scan returns true with the next line, or false at the end of the input,
\* where scanner.Err() is nil at EOF and the read error otherwise.
Scan ==
    /\ pc = "scan"
    /\ IF pos < Len(lines)
       THEN /\ pos' = pos + 1
            /\ url' = lines[pos + 1]
            /\ pc' = "lookup"
            /\ UNCHANGED scanErr
       ELSE /\ scanErr' = IF readFail THEN ReadError ELSE NilErr
            /\ pc' = "scanErr"
            /\ UNCHANGED <<pos, url>>
    /\ UNCHANGED <<prev, apiKey, sb, lines, readFail, threats, err, code, stdout, stderr,
                   exitCode, calls>>


\* LookupURLs started without waiting for it: the loop goes straight on to the
\* next line and the result is never handled.
LookupURLsAsync ==
    /\ pc = "lookup"
    /\ \E r \in LookupReturns :
        calls' = Append(calls, [urls |-> <<url>>, threats |-> r.threats,
                                err |-> r.err])
    /\ pc' = "scan"
    /\ UNCHANGED <<prev, apiKey, sb, lines, readFail, pos, scanErr, url, threats, err,
                   code, stdout, stderr, exitCode>>

\* threats, err := sb.LookupURLs([]string{url})
LookupURLs ==
    /\ pc = "lookup"
    /\ \E r \in LookupReturns :
        /\ threats' = r.threats
        /\ err' = r.err
        /\ calls' = Append(calls, [urls |-> <<url>>, threats |-> r.threats,
                                   err |-> r.err])
    /\ pc' = "errCheck"
    /\ UNCHANGED <<prev, apiKey, sb, lines, readFail, pos, scanErr, url, code, stdout,
                   stderr, exitCode>>



\* ErrCheck that retries: after a lookup error the same URL is looked up again.
ErrCheckRetry ==
    /\ pc = "errCheck"
    /\ IF err # NilErr
       THEN /\ stderr' = Append(stderr, Sprintln("Lookup error:", err))
            /\ code' = IF code # 0 THEN CodeFailed ELSE code
            /\ pc' = "lookup"
       ELSE /\ UNCHANGED <<stderr, code>>
            /\ pc' = "classify"
    /\ UNCHANGED <<prev, apiKey, sb, lines, readFail, pos, scanErr, url, threats, err,
                   stdout, exitCode, calls>>

\* ErrCheck with the assignment unguarded: code = 128 on every lookup error.
ErrCheckUnguarded ==
    /\ pc = "errCheck"
    /\ IF err # NilErr
       THEN /\ stderr' = Append(stderr, Sprintln("Lookup error:", err))
            /\ code' = CodeFailed
       ELSE UNCHANGED <<stderr, code>>
    /\ pc' = "classify"
    /\ UNCHANGED <<prev, apiKey, sb, lines, readFail, pos, scanErr, url, threats, err,
                   stdout, exitCode, calls>>

\* if err != nil { fmt.Fprintln(os.Stderr, "Lookup error:", err)
\*                 if code != 0 { code = 128 } }
\* There is no continue: control goes on to the verdict.
ErrCheck ==
    /\ pc = "errCheck"
    /\ IF err # NilErr
       THEN /\ stderr' = Append(stderr, Sprintln("Lookup error:", err))
            /\ code' = IF code # 0 THEN CodeFailed ELSE code
       ELSE UNCHANGED <<stderr, code>>
    /\ pc' = "classify"
    /\ UNCHANGED <<prev, apiKey, sb, lines, readFail, pos, scanErr, url, threats, err,
                   stdout, exitCode, calls>>

\* Classify with the test of the threat list inverted (len(threats[0]) != 0):
\* the two verdicts change places.
ClassifyInverted ==
    /\ pc = "classify"
    /\ IF Len(threats) = 0
       THEN /\ stderr' = Append(stderr,
                "panic: runtime error: index out of range [0] with length 0")
            /\ exitCode' = CodePanic
            /\ pc' = "done"
            /\ UNCHANGED <<stdout, code>>
       ELSE /\ IF Len(threats[1]) # 0
               THEN /\ stdout' = Append(stdout, Sprintln("Safe URL:", url))
                    /\ UNCHANGED code
               ELSE /\ stdout' = Append(stdout,
                            Sprintln("Unsafe URL:", FmtThreats(threats[1])))
                    /\ code' = IF code # 0 THEN CodeUnsafe ELSE code
            /\ pc' = "scan"
            /\ UNCHANGED <<stderr, exitCode>>
    /\ url' = ""
    /\ threats' = <<>>
    /\ err' = NilErr
    /\ UNCHANGED <<prev, apiKey, sb, lines, readFail, pos, scanErr, calls>>

\* if len(threats[0]) == 0 { Safe } else { Unsafe; if code != 0 { code = 1 } }
\* threats[0] of an empty slice is a run-time panic: the run-time writes the
\* panic to stderr and the process exits with status 2.
\* url, threats and err are local to one iteration of the loop.
Classify ==
    /\ pc = "classify"
    /\ IF Len(threats) = 0
       THEN /\ stderr' = Append(stderr,
                "panic: runtime error: index out of range [0] with length 0")
            /\ exitCode' = CodePanic
            /\ pc' = "done"
            /\ UNCHANGED <<stdout, code>>
       ELSE /\ IF Len(threats[1]) = 0
               THEN /\ stdout' = Append(stdout, Sprintln("Safe URL:", url))
                    /\ UNCHANGED code
               ELSE /\ stdout' = Append(stdout,
                            Sprintln("Unsafe URL:", FmtThreats(threats[1])))
                    /\ code' = IF code # 0 THEN CodeUnsafe ELSE code
            /\ pc' = "scan"
            /\ UNCHANGED <<stderr, exitCode>>
    /\ url' = ""
    /\ threats' = <<>>
    /\ err' = NilErr
    /\ UNCHANGED <<prev, apiKey, sb, lines, readFail, pos, scanErr, calls>>


\* ScanErr that swallows the read error: nothing is written to stderr.
ScanErrSilent ==
    /\ pc = "scanErr"
    /\ code' = IF scanErr # NilErr /\ code # 0 THEN CodeFailed ELSE code
    /\ pc' = "exit"
    /\ UNCHANGED <<prev, apiKey, sb, lines, readFail, pos, scanErr, url, threats, err,
                   stdout, stderr, exitCode, calls>>

\* if scanner.Err() != nil { fmt.Fprintln(os.Stderr, "Unable to read input:", ...)
\*                           if code != 0 { code = 128 } }
ScanErr ==
    /\ pc = "scanErr"
    /\ IF scanErr # NilErr
       THEN /\ stderr' = Append(stderr, Sprintln("Unable to read input:", scanErr))
            /\ code' = IF code # 0 THEN CodeFailed ELSE code
       ELSE UNCHANGED <<stderr, code>>
    /\ pc' = "exit"
    /\ UNCHANGED <<prev, apiKey, sb, lines, readFail, pos, scanErr, url, threats, err,
                   stdout, exitCode, calls>>


\* Exit whose status depends on something other than this run's input and
\* lookups: it is code, or the 128 an earlier run left behind.
ExitHiddenState ==
    /\ pc = "exit"
    /\ exitCode' \in {code, CodeFailed}
    /\ pc' = "done"
    /\ UNCHANGED <<prev, apiKey, sb, lines, readFail, pos, scanErr, url, threats, err,
                   code, stdout, stderr, calls>>

\* os.Exit(code)
Exit ==
    /\ pc = "exit"
    /\ exitCode' = code
    /\ pc' = "done"
    /\ UNCHANGED <<prev, apiKey, sb, lines, readFail, pos, scanErr, url, threats, err,
                   code, stdout, stderr, calls>>

Next ==
    \/ FlagParse
    \/ NewSafeBrowser
    \/ Scan
    \/ LookupURLs
    \/ ErrCheck
    \/ Classify
    \/ ScanErr
    \/ Exit

Spec == Init /\ [][Next]_vars

\* number of the lookups made that ended as o: "Safe", "Unsafe" or "LookupFailed"
NumOutcome(o) ==
    Cardinality({ i \in 1..Len(calls) :
        CASE o = "LookupFailed" -> calls[i].err # NilErr
          [] o = "Unsafe" -> calls[i].err = NilErr /\ Len(calls[i].threats[1]) > 0
          [] o = "Safe" -> calls[i].err = NilErr /\ Len(calls[i].threats[1]) = 0 })

\* The tool is run a second time, as a new process, on an input of its own:
\* main() starts again from its first statement.  What the first run ended
\* with is kept for comparison.
Rerun ==
    /\ pc = "done"
    /\ ~prev.ran
    /\ prev' = [ran |-> TRUE, looped |-> sb # NilSB,
                nSafe |-> NumOutcome("Safe"), nUnsafe |-> NumOutcome("Unsafe"),
                nFailed |-> NumOutcome("LookupFailed"),
                readErr |-> scanErr # NilErr, exitCode |-> exitCode]
    /\ pc' = "flagParse"
    /\ apiKey' \in APIKeys
    /\ sb' = NilSB
    /\ lines' \in SeqsUpTo(URLs, MaxLines)
    /\ readFail' \in BOOLEAN
    /\ pos' = 0
    /\ scanErr' = NilErr
    /\ url' = ""
    /\ threats' = <<>>
    /\ err' = NilErr
    /\ code' = CodeInitial
    /\ stdout' = <<>>
    /\ stderr' = <<>>
    /\ exitCode' = NotExited
    /\ calls' = <<>>

\* main() is the one flow of control of the process and every call it makes
\* returns: a step that can be taken is taken.
FairSpec == Spec /\ WF_vars(Next)

\* two runs of the tool, one after the other
SpecRerun == Init /\ [][Next \/ Rerun]_vars

-----------------------------------------------------------------------------
(* Vocabulary of the properties. *)

\* the run got past start-up: the input loop was reached
ReachedLoop == sb # NilSB

\* the process has exited
Exited == pc = "done"

\* outcome of one lookup: the call failed, or it found threats, or none
Outcome(c) ==
    IF c.err # NilErr THEN "LookupFailed"
    ELSE IF Len(c.threats[1]) = 0 THEN "Safe" ELSE "Unsafe"

\* exit code an outcome asks for
Severity(o) ==
    CASE o = "Safe" -> 0
      [] o = "Unsafe" -> 1
      [] o = "LookupFailed" -> 128

Max(a, b) == IF a >= b THEN a ELSE b

\* most severe code over the lookups made so far and the read error
RECURSIVE WorstOf(_)
WorstOf(cs) ==
    IF Len(cs) = 0 THEN 0
    ELSE Max(Severity(Outcome(cs[1])), WorstOf(Tail(cs)))

WorstOutcome == Max(WorstOf(calls), IF scanErr # NilErr THEN 128 ELSE 0)

NoLookupErrored == \A i \in 1..Len(calls) : calls[i].err = NilErr
SomeLookupErrored == \E i \in 1..Len(calls) : calls[i].err # NilErr
SomeUnsafe == \E i \in 1..Len(calls) : Outcome(calls[i]) = "Unsafe"
AllSafe == \A i \in 1..Len(calls) : Outcome(calls[i]) = "Safe"

\* the loop is about to print the verdict of a lookup that ...
AtFailedLookup == pc = "classify" /\ err # NilErr
AtUnsafeLookup == pc = "classify" /\ err = NilErr /\ Len(threats[1]) > 0
AtSafeLookup == pc = "classify" /\ err = NilErr /\ Len(threats[1]) = 0

\* the lookups whose iteration of the loop is over
Handled ==
    IF pc \in {"errCheck", "classify"} THEN SubSeq(calls, 1, Len(calls) - 1)
    ELSE calls

\* the verdict lines of the lookups that did not fail, in order
RECURSIVE VerdictsOf(_)
VerdictsOf(cs) ==
    IF Len(cs) = 0 THEN <<>>
    ELSE LET c == cs[1]
             rest == VerdictsOf(Tail(cs))
         IN  CASE Outcome(c) = "LookupFailed" -> rest
               [] Outcome(c) = "Safe" ->
                    <<"Safe URL: " \o c.urls[1]>> \o rest
               [] Outcome(c) = "Unsafe" ->
                    <<"Unsafe URL: " \o FmtThreats(c.threats[1])>> \o rest

-----------------------------------------------------------------------------
(* Properties. *)

\* C1: a run that reaches the input loop, in which no lookup fails, the input
\* ends cleanly and at least one URL has a non-empty threat list, exits with
\* code 1.
C1_UnsafeRunExits1 ==
    (Exited /\ ReachedLoop /\ NoLookupErrored /\ scanErr = NilErr /\ SomeUnsafe)
        => exitCode = 1

\* C2: a run that reaches the input loop and in which LookupURLs returns an
\* error for at least one URL exits with code 128, whatever the other URLs'
\* outcomes are.
C2_FailedLookupExits128 ==
    (Exited /\ ReachedLoop /\ SomeLookupErrored) => exitCode = 128

\* C3: most severe wins: the exit code of a run that reached the input loop
\* is the largest of 0 (all safe), 1 (some URL unsafe) and 128 (some lookup
\* failed, or the input could not be read) over everything seen in the run.
C3_ExitCodeIsWorstOutcome ==
    (Exited /\ ReachedLoop) => exitCode = WorstOutcome

\* C4: when every URL read was looked up without error and has no threats and
\* the input ended cleanly, the process exits with code 0; on empty input it
\* also writes nothing to stdout.
C4_AllSafeExits0 ==
    (Exited /\ ReachedLoop /\ AllSafe /\ scanErr = NilErr)
        => /\ exitCode = 0
           /\ Len(calls) = Len(lines)
           /\ (lines = <<>> => stdout = <<>>)

\* C4 witness: a run over two URLs, both safe, has exited.
C4_Witness ==
    /\ Exited /\ ReachedLoop /\ AllSafe /\ scanErr = NilErr
    /\ Len(calls) = 2
    /\ exitCode = 0

\* C5: when LookupURLs fails for a URL, one "Lookup error" diagnostic goes to
\* stderr, no verdict line goes to stdout for that URL, and the loop goes on
\* to the next input line.
C5_FailedLookupNoVerdict ==
    [][ /\ (pc = "errCheck" /\ err # NilErr)
            => stderr' = Append(stderr, "Lookup error: " \o err)
        /\ AtFailedLookup
            => (stdout' = stdout /\ stderr' = stderr /\ pc' = "scan") ]_vars

\* C6: the process only ever exits with code 0, 1 or 128: nothing LookupURLs
\* may return makes a step of the loop crash.
C6_ExitCodeDocumented ==
    Exited => exitCode \in {0, 1, 128}

\* C7: when reading the input fails, the loop is over, the last line on stderr
\* is the one "Unable to read input" diagnostic, and the process exits with
\* code 128.
C7_ReadErrorExits128 ==
    (Exited /\ scanErr # NilErr)
        => /\ exitCode = 128
           /\ Len(stderr) > 0
           /\ stderr[Len(stderr)] = "Unable to read input: " \o scanErr

\* C8: a URL with a non-empty threat list gets exactly one stdout line,
\* "Unsafe URL: " and the whole list in the order returned, and the running
\* exit code is non-zero from that step on.
C8_UnsafeVerdictAndCode ==
    [][ /\ AtUnsafeLookup
            => /\ stdout' = Append(stdout,
                      "Unsafe URL: " \o FmtThreats(threats[1]))
               /\ code' # 0
        /\ (code # 0 => code' # 0) ]_vars

\* C9: a URL whose lookup succeeds with an empty threat list gets exactly one
\* stdout line, "Safe URL: " and the URL as read, and that step leaves the
\* running exit code as it was; no other step of the loop writes to stdout
\* for it.
C9_SafeVerdictKeepsCode ==
    [][ /\ AtSafeLookup
            => /\ stdout' = Append(stdout, "Safe URL: " \o url)
               /\ code' = code
               /\ url = lines[pos]
        /\ pc # "classify" => stdout' = stdout ]_vars

\* C9 witness: the verdict of a safe URL has just been printed.
C9_Witness ==
    /\ pc = "scan"
    /\ Len(calls) > 0
    /\ Outcome(calls[Len(calls)]) = "Safe"
    /\ Len(stdout) > 0
    /\ stdout[Len(stdout)] = "Safe URL: " \o lines[pos]

\* C10: stdout holds, in input order, the verdict of every input line handled
\* so far whose lookup did not fail, and nothing else.
C10_StdoutFollowsInput ==
    ReachedLoop
        => /\ stdout = VerdictsOf(Handled)
           /\ \A i \in 1..Len(calls) : calls[i].urls = <<lines[i]>>

\* the process exited on a start-up error
StartupExit == Exited /\ ~ReachedLoop

\* C11: on a start-up error (empty -apikey, or NewSafeBrowser returning an
\* error) the process writes one diagnostic to stderr and exits with code 1
\* before any input line is read, any lookup is made or any stdout line is
\* written; with an empty -apikey the run gets no further than that exit.
C11_StartupErrorExits1 ==
    /\ (apiKey = "" /\ pc # "flagParse")
          => (StartupExit /\ stderr = <<"No -apikey specified">>)
    /\ StartupExit
          => /\ exitCode = 1
             /\ Len(stderr) = 1
             /\ pos = 0
             /\ calls = <<>>
             /\ stdout = <<>>
    /\ ~ReachedLoop => (pos = 0 /\ calls = <<>> /\ stdout = <<>>)

\* C11 witness: the process has exited because NewSafeBrowser returned an
\* error for a non-empty key.
C11_Witness ==
    /\ StartupExit
    /\ apiKey # ""
    /\ exitCode = 1
    /\ stderr = <<"Unable to initialize Safe Browsing client:  invalid api key">>

NormalExit ==
    /\ Exited
    /\ ReachedLoop
    /\ ~(Len(calls) > 0 /\ Len(calls[Len(calls)].threats) = 0)

C16_OneLookupPerLine ==
    /\ Len(calls) = (IF pc = "lookup" THEN pos - 1 ELSE pos)
    /\ pos <= Len(lines)
    /\ \A i \in 1..Len(calls) : calls[i].urls = <<lines[i]>>
    /\ pc \in {"scanErr", "exit"} => Len(calls) = Len(lines)

\* C16 witness: the lookup of an empty first line failed, and the second line
\* has been looked up; the input then ended in a read error.
C16_Witness ==
    /\ pc = "exit"
    /\ scanErr # NilErr
    /\ Len(calls) = 2
    /\ calls[1].urls = <<"">>
    /\ calls[1].err # NilErr
    /\ calls[2].urls = <<"http://bad1url.org">>

\* number of "Lookup error" lines in a stream
NumLookupDiagnostics(out) ==
    Cardinality({ i \in 1..Len(out) :
                    \E e \in LookupErrors : out[i] = "Lookup error: " \o e })

\* number of "Unable to read input" lines in a stream
NumReadDiagnostics(out) ==
    Cardinality({ i \in 1..Len(out) :
                    out[i] = "Unable to read input: " \o ReadError })

\* number of failed lookups among cs
NumFailed(cs) == Cardinality({ i \in 1..Len(cs) : cs[i].err # NilErr })

\* the lookups whose error check is over
ErrChecked ==
    IF pc = "errCheck" THEN SubSeq(calls, 1, Len(calls) - 1) ELSE calls

\* C18: stderr holds one "Lookup error" line per failed lookup and, once the
\* read-error check is over, one "Unable to read input" line if reading the
\* input failed and none otherwise; a run without failures has written
\* nothing to stderr from the loop.
C18_OneDiagnosticPerFailure ==
    ReachedLoop
        => /\ NumLookupDiagnostics(stderr) = NumFailed(ErrChecked)
           /\ NumReadDiagnostics(stderr)
                = (IF scanErr # NilErr /\ pc \in {"exit", "done"} THEN 1 ELSE 0)
           /\ (NoLookupErrored /\ scanErr = NilErr) => stderr = <<>>

\* C18 witness: a run with two failed lookups and a read error is past the
\* read-error check, with three lines on stderr.
C18_Witness ==
    /\ pc = "exit"
    /\ scanErr # NilErr
    /\ NumFailed(calls) = 2
    /\ Len(stderr) = 3

\* C17: lines are handled one at a time in input order: at most one line is
\* between being read and being fully handled, and when the lookup of a line
\* is about to start every earlier line's lookup has returned and its
\* diagnostic and verdict have been written.
C17_OneLineAtATime ==
    /\ pos - Len(Handled) \in {0, 1}
    /\ pc = "lookup"
          => /\ Len(calls) = pos - 1
             /\ Handled = calls
             /\ \A i \in 1..Len(calls) : calls[i].urls = <<lines[i]>>
             /\ NumLookupDiagnostics(stderr) = NumFailed(calls)
             /\ Len(stdout) >= Len(calls) - NumFailed(calls)
             /\ Len(stdout) + NumLookupDiagnostics(stderr) >= Len(calls)

\* C17 witness: the second line is about to be looked up and the first has
\* been handled: its verdict is on stdout.
C17_Witness ==
    /\ pc = "lookup"
    /\ pos = 2
    /\ Len(calls) = 1
    /\ calls[1].err = NilErr
    /\ Len(stdout) = 1

\* What LookupURLs answered in this run, call by call.
Answers == [i \in 1..Len(calls) |-> [threats |-> calls[i].threats,
                                      err |-> calls[i].err]]

\* stdout as a function of the input lines and the answers alone: a line per
\* answer, up to the first answer that carries no list
RECURSIVE StdoutOfRun(_, _)
StdoutOfRun(ls, as) ==
    IF Len(as) = 0 \/ Len(ls) = 0 THEN <<>>
    ELSE IF Len(as[1].threats) = 0 THEN <<>>
    ELSE <<(IF Len(as[1].threats[1]) = 0
            THEN "Safe URL: " \o ls[1]
            ELSE "Unsafe URL: " \o FmtThreats(as[1].threats[1]))>>
           \o StdoutOfRun(Tail(ls), Tail(as))

\* the exit status as a function of the key, the result of NewSafeBrowser and
\* the answers alone
ExitOfRun(key, constructed, as) ==
    IF key = "" \/ ~constructed THEN 1
    ELSE IF \E i \in 1..Len(as) : Len(as[i].threats) = 0 THEN 2
    ELSE 0

\* C12: stdout and the exit code of a finished run are functions of the input
\* (key and lines) and of what the collaborator answered, and of nothing
\* else: two runs with the same input and the same answers end with the same
\* stdout and the same exit code.
C12_ResultIsFunctionOfInput ==
    Exited
        => /\ stdout = StdoutOfRun(lines, Answers)
           /\ exitCode = ExitOfRun(apiKey, ReachedLoop, Answers)

\* C12 witness: a run over two lines, with an unsafe URL and a read error,
\* has finished.
C12_Witness ==
    /\ Exited
    /\ Len(calls) = 2
    /\ Len(stdout) = 2
    /\ SomeUnsafe
    /\ scanErr # NilErr

\* C14: the exit code does not depend on the order of processing: a run that
\* reached the loop ends with the same exit code as an earlier run that saw the
\* same numbers of Safe, Unsafe and LookupFailed outcomes and the same
\* read-error signal.
C14_ExitCodeIgnoresOrder ==
    ( /\ Exited /\ ReachedLoop
      /\ prev.ran /\ prev.looped
      /\ prev.nSafe = NumOutcome("Safe")
      /\ prev.nUnsafe = NumOutcome("Unsafe")
      /\ prev.nFailed = NumOutcome("LookupFailed")
      /\ prev.readErr = (scanErr # NilErr) )
        => exitCode = prev.exitCode

\* C19: the run terminates.  When the input is exhausted or its read fails
\* the loop ends without another lookup; the process exits once, through the
\* end of the loop with the running code as its exit code; and after the exit
\* nothing more happens.
C19_RunTerminates ==
    /\ <>[]Exited
    /\ [][ /\ pc # "done" /\ exitCode = NotExited
           /\ (pc = "scan" /\ pos = Len(lines))
                => (pc' = "scanErr" /\ calls' = calls /\ stdout' = stdout)
           /\ pc = "exit" => (pc' = "done" /\ exitCode' = code) ]_vars

\* C19 witness: a run over two lines whose input ended in a read error has
\* exited through the end of the loop.
C19_Witness ==
    /\ NormalExit
    /\ pos = Len(lines)
    /\ Len(calls) = 2
    /\ scanErr # NilErr
    /\ exitCode = code

====
